---- MODULE Spec2Model ----
(***************************************************************************)
(* Blob lifecycle of the Citadel IDP backend: handle_input_blob_process    *)
(* and the functions it calls, as a state machine over the record store    *)
(* (mongodb), the input container and the result container.                *)
(*                                                                         *)
(* Strings are sequences of tokens; a path such as                         *)
(*   Companies/acme/Validation-Successful/1001-receipt.jpg                 *)
(* is <<"Companies","/","acme","/","Validation","-","Successful","/",      *)
(*      "1001","-","receipt",".","jpg">>, so that str.replace, basename,   *)
(* splitext and rfind are computed on the text and not assumed.            *)
(***************************************************************************)
EXTENDS Integers, Sequences, FiniteSets, TLC

\* ------------------------------------------------------------------ bounds
\* number of batch runs (calls of handle_input_blob_process) explored
MaxRuns == 2
\* number of adapter calls that may throw over the explored runs
MaxFaults == 2

\* --------------------------------------------------------------- constants
\* unset value of an optional path field (mongoengine: None)
NoPath == <<>>
\* unset value of an optional string field (mongoengine: None)
NoneStr == "None"

VALIDATION_SUCCESSFUL_SUBFOLDER == <<"Validation", "-", "Successful">>
INPROGRESS_SUBFOLDER == <<"Inprogress">>
SUCCESSFUL_SUBFOLDER == <<"Successful">>
FAILED_SUBFOLDER == <<"Failed">>

PROCESSING == "PROCESSING"
PROCESSED == "PROCESSED"
SUCCESS == "SUCCESS"
FAILED == "FAILED"

\* config section Form-Recognizer-Document-Types: (key, value) pairs
DocumentTypes == << <<"receipt", "model-A">>, <<"invoice", "model-B">> >>

\* the driver instances; Spec runs the single worker the source assumes
Procs == {1, 2}
Worker == {1}

\* the documents of the record store and the order the query returns them in
Docs == {1, 2, 3}

DocPath(d) ==
    CASE d = 1 -> <<"Companies", "/", "acme", "/", "Validation", "-", "Successful", "/",
                    "1001", "-", "receipt", ".", "jpg">>
      [] d = 2 -> <<"Companies", "/", "acme", "/", "Validation", "-", "Successful", "/",
                    "1001", "-", "receipt", ".", "png">>
      [] OTHER -> <<"Companies", "/", "acme", "/", "Validation", "-", "Successful", "/",
                    "1003", ".", "jpg">>

\* ------------------------------------------------------- string operations
\* str.lower() on a token
Lower(t) ==
    CASE t = "Receipt" -> "receipt"
      [] t = "Invoice" -> "invoice"
      [] OTHER -> t

\* index of the last occurrence of token c in s, 0 when absent (str.rfind)
RECURSIVE RFind(_, _)
RFind(s, c) ==
    IF Len(s) = 0 THEN 0
    ELSE IF s[Len(s)] = c THEN Len(s)
    ELSE RFind(SubSeq(s, 1, Len(s) - 1), c)

\* str.replace(old, new): every non-overlapping occurrence, left to right
RECURSIVE Replace(_, _, _)
Replace(s, old, new) ==
    IF Len(s) < Len(old) THEN s
    ELSE IF SubSeq(s, 1, Len(old)) = old
         THEN new \o Replace(SubSeq(s, Len(old) + 1, Len(s)), old, new)
         ELSE <<Head(s)>> \o Replace(Tail(s), old, new)

\* os.path.basename
Basename(p) == SubSeq(p, RFind(p, "/") + 1, Len(p))

\* os.path.dirname
Dirname(p) == IF RFind(p, "/") = 0 THEN <<>> ELSE SubSeq(p, 1, RFind(p, "/") - 1)

\* os.path.splitext(name)[0]: leading dots do not start an extension
SplitextRoot(name) ==
    IF \A i \in 1..(RFind(name, ".") - 1) : name[i] = "."
    THEN name
    ELSE SubSeq(name, 1, RFind(name, ".") - 1)

\* concatenation of the tokens' lower-case forms
LowerSeq(s) == [i \in 1..Len(s) |-> Lower(s[i])]

\* ------------------------------------------------- document type resolver
\* name_part of get_document_type_from_file_name
NamePart(file_path) == SplitextRoot(Basename(file_path))

\* document_type = name_part[(index + 1):]
DocumentTypeOf(file_path) ==
    SubSeq(NamePart(file_path), RFind(NamePart(file_path), "-") + 1, Len(NamePart(file_path)))

\* the config section as the resolver reads it: has_section and items
DocumentTypeSection == [has_section |-> TRUE, items |-> DocumentTypes]

\* the comparison of line 72 without the two lower()
MatchingKeysCaseSensitive(file_path, section) ==
    IF ~section.has_section THEN {}
    ELSE {i \in 1..Len(section.items) :
            DocumentTypeOf(file_path) = <<section.items[i][1]>>}

\* lines 70-72: the keys of the section that match the document type,
\* ignoring case
MatchingKeysIn(file_path, section) ==
    IF ~section.has_section THEN {}
    ELSE {i \in 1..Len(section.items) :
            LowerSeq(DocumentTypeOf(file_path)) = <<Lower(section.items[i][1])>>}

\* the test of index == -1 (lines 62-66) is left out
RaisesWithoutHyphenCheck(file_path, section) ==
    MatchingKeysIn(file_path, section) = {}

\* lines 61-78: the call raises MissingDocumentTypeException
RaisesIn(file_path, section) ==
    \/ RFind(NamePart(file_path), "-") = 0
    \/ MatchingKeysIn(file_path, section) = {}

\* line 73: the returned pair (document_type, value) of the first match
ResolveIn(file_path, section) ==
    LET i == CHOOSE k \in MatchingKeysIn(file_path, section) :
                \A j \in MatchingKeysIn(file_path, section) : k <= j
    IN  <<DocumentTypeOf(file_path), section.items[i][2]>>

\* keys of the configured table matching the document type, ignoring case
MatchingKeys(file_path) == MatchingKeysIn(file_path, DocumentTypeSection)

\* get_document_type_from_file_name raises MissingDocumentTypeException
RaisesMissingDocumentType(file_path) == RaisesIn(file_path, DocumentTypeSection)

\* the returned pair (document_type, value) of the first matching key
get_document_type_from_file_name(file_path) == ResolveIn(file_path, DocumentTypeSection)

\* ------------------------------------------------------------------ state
VARIABLES
    config,      \* config_reader.config_data: [env, use_fr, keys]
    order,       \* the order in which the record store returns the records
    db,          \* the record store: persisted InputBlob documents
    store,       \* paths of the objects of the input container
    results,     \* the result container: set of <<path, content>>
    mem,         \* mem[w][d]: the InputBlob objects a run holds in memory
    blob_list,   \* blob_list[w]: input_blob_list of the run
    idx,         \* idx[w]: position of the loop in input_blob_list
    pc,          \* pc[w]: the statement the run is at
    is_error,    \* is_error[w]: the local of handle_input_blob_process
    in_handler,  \* in_handler[w]: the run is inside an except block
    result_dict, \* result_dict[w]: the local of analyze_blob
    raised,      \* raised[w]: documents whose try block raised in this run
    started,     \* started[w]: documents whose claim has begun in this run
    done,        \* done[w]: documents whose loop iteration has ended
    outcome,     \* outcome[w]: how the last run ended
    runs,        \* number of runs started
    faults,      \* number of adapter faults injected
    relocated,   \* documents whose copy to the Inprogress path has succeeded
    src_missing, \* src_missing[w]: documents of this run with a relocation
                 \* that failed because its source object was absent
    fn_pc,       \* the call a pure function is at: none, input, resolved, ...
    fn_path,     \* the path argument
    fn_stage,    \* the stage folder the path argument was built with
    fn_table,    \* the config section argument of the resolver
    fn_from,     \* the stage substituted away
    fn_to,       \* the stage substituted in
    fn_mid,      \* the outcome of the substitution from fn_from to fn_to
    fn_out,      \* the outcome of the last call
    lg_pc,       \* check_and_process_blob_storage: the statement it is at
    lg_list,     \* its input_blobs_list, as documents
    lg_idx,      \* the position of its loop in input_blobs_list
    lg_processed,\* its processed_blobs_list, as documents
    lg_outcome   \* none, running, returned, raised

main_vars == <<config, order, db, store, results, mem, blob_list, idx, pc, is_error,
               in_handler, result_dict, raised, started, done, outcome, runs, faults,
               relocated, src_missing>>

\* the state of the specifications of the pure functions
fn_vars == <<fn_pc, fn_path, fn_stage, fn_table, fn_from, fn_to, fn_mid, fn_out>>

\* the state of the driver of blob_handler.py
lg_vars == <<lg_pc, lg_list, lg_idx, lg_processed, lg_outcome>>

\* the state of the other specifications of this module
aux_vars == <<fn_vars, lg_vars>>

vars == <<main_vars, aux_vars>>

Range(f) == {f[i] : i \in DOMAIN f}

\* a LifecycleStatus entry (the timestamp is not modelled)
LifecycleStatus(status, message) == [status |-> status, message |-> message]

\* the InputBlob document of a validated, not yet claimed file
InputBlob(d) ==
    [ validation_successful_blob_path |-> DocPath(d),
      is_validation_successful |-> TRUE,
      is_processing_for_data |-> FALSE,
      is_processed_for_data |-> FALSE,
      is_processed_success |-> FALSE,
      is_processed_failed |-> FALSE,
      blob_type |-> <<>>,
      form_recognizer_model_id |-> NoneStr,
      in_progress_blob_path |-> NoPath,
      in_progress_blob_sas_url |-> NoPath,
      failed_blob_path |-> NoPath,
      success_blob_path |-> NoPath,
      json_output |-> NoPath,
      lifecycle_status_list |-> <<>> ]

\* the validated records in the order the query returns them: every
\* sequence of distinct documents, the empty one included
Orders ==
    UNION {{o \in [1..n -> Docs] : \A i, j \in 1..n : o[i] = o[j] => i = j} :
            n \in 0..Cardinality(Docs)}

\* the persisted record of document d before any run: validated, with its
\* object in the Validation-Successful folder, when d is in o
InitialBlob(o, d) == [InputBlob(d) EXCEPT !.is_validation_successful = (d \in Range(o))]

Configs == [env : {"prod", "local"}, use_fr : {"absent", "true", "false"}, keys : BOOLEAN]

\* the state before the first run, for a configuration and a record order
InitMain(c, o) ==
    /\ config = c
    /\ order = o
    /\ db = [d \in Docs |-> InitialBlob(o, d)]
    /\ store = {DocPath(d) : d \in Range(o)}
    /\ results = {}
    /\ mem = [w \in Procs |-> [d \in Docs |-> InitialBlob(o, d)]]
    /\ blob_list = [w \in Procs |-> <<>>]
    /\ idx = [w \in Procs |-> 0]
    /\ pc = [w \in Procs |-> "idle"]
    /\ is_error = [w \in Procs |-> TRUE]
    /\ in_handler = [w \in Procs |-> FALSE]
    /\ result_dict = [w \in Procs |-> "none"]
    /\ raised = [w \in Procs |-> {}]
    /\ started = [w \in Procs |-> {}]
    /\ done = [w \in Procs |-> {}]
    /\ outcome = [w \in Procs |-> "none"]
    /\ runs = 0
    /\ faults = 0
    /\ relocated = {}
    /\ src_missing = [w \in Procs |-> {}]

\* the outcome of a call that has not been made
NoOutcome == [kind |-> "none", value |-> <<>>]

\* no call of a pure function is modelled
FnIdle ==
    /\ fn_pc = "none"
    /\ fn_path = <<>>
    /\ fn_stage = "none"
    /\ fn_table = DocumentTypeSection
    /\ fn_from = "none"
    /\ fn_to = "none"
    /\ fn_mid = NoOutcome
    /\ fn_out = NoOutcome

\* check_and_process_blob_storage is not called
LegacyIdle ==
    /\ lg_pc = "none"
    /\ lg_list = <<>>
    /\ lg_idx = 0
    /\ lg_processed = <<>>
    /\ lg_outcome = "none"

\* the state of the other specifications while the batch runs
InitAux == FnIdle /\ LegacyIdle

Init ==
    /\ \E c \in Configs : \E o \in Orders : InitMain(c, o)
    /\ InitAux

\* the document the loop of run w is at
Cur(w) == blob_list[w][idx[w]]

\* ------------------------------------------------------------ record edits
\* the list is assigned instead of appended to
AppendStatusOverwrite(rec, status, message) ==
    [rec EXCEPT !.lifecycle_status_list = <<LifecycleStatus(status, message)>>]

\* lifecycle_status_list.append(...)
AppendStatus(rec, status, message) ==
    [rec EXCEPT !.lifecycle_status_list = Append(@, LifecycleStatus(status, message))]

\* the claim flag is set with the PROCESSING entry, before the relocation
ClaimPreparedEarlyFlag(rec) ==
    [AppendStatus(rec, PROCESSING, "Starting blob process") EXCEPT
        !.blob_type = get_document_type_from_file_name(rec.validation_successful_blob_path)[1],
        !.form_recognizer_model_id = get_document_type_from_file_name(rec.validation_successful_blob_path)[2],
        !.is_processing_for_data = TRUE,
        !.in_progress_blob_path =
            Replace(rec.validation_successful_blob_path, VALIDATION_SUCCESSFUL_SUBFOLDER, INPROGRESS_SUBFOLDER)]

\* lines 140-154: PROCESSING entry, document type, in-progress path
ClaimPrepared(rec) ==
    [AppendStatus(rec, PROCESSING, "Starting blob process") EXCEPT
        !.blob_type = get_document_type_from_file_name(rec.validation_successful_blob_path)[1],
        !.form_recognizer_model_id = get_document_type_from_file_name(rec.validation_successful_blob_path)[2],
        !.in_progress_blob_path =
            Replace(rec.validation_successful_blob_path, VALIDATION_SUCCESSFUL_SUBFOLDER, INPROGRESS_SUBFOLDER)]

\* get_sas_url: https://<account>.blob.core.windows.net/<container>/<path>?<token>
get_sas_url(blob_path) == <<"https://">> \o blob_path \o <<"?", "sas">>

\* lines 167-170: the claim flag and the readable url
ClaimMarked(rec) ==
    [rec EXCEPT !.is_processing_for_data = TRUE,
                !.in_progress_blob_sas_url = get_sas_url(rec.in_progress_blob_path)]

\* the finished flag is left out
ProcessedNoFlag(rec) ==
    [rec EXCEPT !.lifecycle_status_list =
        Append(@, LifecycleStatus(PROCESSED, "Blob processed successfully"))]

\* lines 55-63 (and 75-83, 96-102, 113-121): finished flag and PROCESSED entry
Processed(rec) ==
    [AppendStatus(rec, PROCESSED, "Blob processed successfully") EXCEPT
        !.is_processed_for_data = TRUE]

\* the final path is also assigned to in_progress_blob_path
WithFinalPathRederived(rec, err) ==
    IF err
    THEN [rec EXCEPT !.failed_blob_path =
            Replace(rec.in_progress_blob_path, INPROGRESS_SUBFOLDER, FAILED_SUBFOLDER),
            !.in_progress_blob_path =
            Replace(rec.in_progress_blob_path, INPROGRESS_SUBFOLDER, FAILED_SUBFOLDER)]
    ELSE [rec EXCEPT !.success_blob_path =
            Replace(rec.in_progress_blob_path, INPROGRESS_SUBFOLDER, SUCCESSFUL_SUBFOLDER),
            !.in_progress_blob_path =
            Replace(rec.in_progress_blob_path, INPROGRESS_SUBFOLDER, SUCCESSFUL_SUBFOLDER)]

\* lines 244-246 and 269-271: the path of the terminal folder
WithFinalPath(rec, err) ==
    IF err
    THEN [rec EXCEPT !.failed_blob_path =
            Replace(rec.in_progress_blob_path, INPROGRESS_SUBFOLDER, FAILED_SUBFOLDER)]
    ELSE [rec EXCEPT !.success_blob_path =
            Replace(rec.in_progress_blob_path, INPROGRESS_SUBFOLDER, SUCCESSFUL_SUBFOLDER)]

\* the destination of the terminal relocation
FinalPath(rec, err) == IF err THEN rec.failed_blob_path ELSE rec.success_blob_path

\* the failed branch leaves is_processed_failed out
TerminalNoFailFlag(rec, err) ==
    IF err
    THEN [rec EXCEPT !.lifecycle_status_list =
            Append(@, LifecycleStatus(FAILED, "Blob moved to Failed folder in Azure-Blob-Storage")),
            !.is_processed_success = FALSE]
    ELSE [rec EXCEPT !.lifecycle_status_list =
            Append(@, LifecycleStatus(SUCCESS, "Blob moved to Successful folder in Azure-Blob-Storage")),
            !.is_processed_success = TRUE, !.is_processed_failed = FALSE]

\* lines 255-264 and 280-289: terminal flags and terminal entry
Terminal(rec, err) ==
    IF err
    THEN [AppendStatus(rec, FAILED, "Blob moved to Failed folder in Azure-Blob-Storage") EXCEPT
            !.is_processed_success = FALSE, !.is_processed_failed = TRUE]
    ELSE [AppendStatus(rec, SUCCESS, "Blob moved to Successful folder in Azure-Blob-Storage") EXCEPT
            !.is_processed_success = TRUE, !.is_processed_failed = FALSE]

\* analyze_blob lines 103-106: the path of the result artifact
ResultJsonPath(rec) ==
    LET path == Replace(rec.in_progress_blob_path, <<"/", "Inprogress", "/">>, <<"/">>)
    IN  Dirname(path) \o <<"/">> \o SplitextRoot(Basename(path)) \o <<".", "json">>

\* analyze_blob lines 94-97: the result artifact
FinalResult(rec, data) ==
    [input_file_name |-> Basename(rec.in_progress_blob_path), recognizer_result_data |-> data]

\* analyze_blob lines 36-51: the analysis is enabled
AnalysisEnabled == config.env = "prod" /\ config.use_fr = "true"

\* handle_input_blob_process lines 32-35
HandlerUsesRecognizer == config.use_fr # "false"

\* the paths held by the result container
ResultPaths == {r[1] : r \in results}

\* ---------------------------------------------------------- control flow
\* the next statement of the same block
Goto(w, label) ==
    /\ pc' = [pc EXCEPT ![w] = label]
    /\ UNCHANGED <<in_handler, raised, outcome>>

\* an exception: the try block enters its except block (lines 69-125); an
\* exception inside an except block leaves handle_input_blob_process
Raise(w) ==
    IF in_handler[w]
    THEN /\ pc' = [pc EXCEPT ![w] = "idle"]
         /\ outcome' = [outcome EXCEPT ![w] = "raised"]
         /\ in_handler' = [in_handler EXCEPT ![w] = FALSE]
         /\ raised' = raised
    ELSE /\ pc' = [pc EXCEPT ![w] = "processed"]
         /\ in_handler' = [in_handler EXCEPT ![w] = TRUE]
         /\ raised' = [raised EXCEPT ![w] = @ \cup {Cur(w)}]
         /\ outcome' = outcome

\* the end of a loop iteration: the next document, or return (line 127)
Advance(w) ==
    /\ done' = [done EXCEPT ![w] = @ \cup {Cur(w)}]
    /\ in_handler' = [in_handler EXCEPT ![w] = FALSE]
    /\ raised' = raised
    /\ IF idx[w] = Len(blob_list[w])
       THEN /\ pc' = [pc EXCEPT ![w] = "idle"]
            /\ outcome' = [outcome EXCEPT ![w] = "returned"]
            /\ idx' = idx
       ELSE /\ pc' = [pc EXCEPT ![w] = "claim"]
            /\ outcome' = outcome
            /\ idx' = [idx EXCEPT ![w] = @ + 1]

\* an adapter call throws
Fault == faults < MaxFaults /\ faults' = faults + 1
NoFault == faults' = faults

\* input_blob.save()
Save(w, rec) ==
    /\ db' = [db EXCEPT ![Cur(w)] = rec]
    /\ mem' = [mem EXCEPT ![w][Cur(w)] = rec]

\* an assignment to the object in memory that is not saved
Keep(w, rec) ==
    /\ db' = db
    /\ mem' = [mem EXCEPT ![w][Cur(w)] = rec]

\* the filter without is_processing_for_data=False
EligibleAnyClaim(rec) == rec.is_validation_successful

\* the filter of the query of line 29
Eligible(rec) == rec.is_validation_successful /\ ~rec.is_processing_for_data

\* the query leaves out the records another running instance has selected
QueryWithLease ==
    SelectSeq(order, LAMBDA d :
        /\ Eligible(db[d])
        /\ \A v \in Procs : pc[v] = "idle" \/ \A i \in 1..Len(blob_list[v]) : blob_list[v][i] # d)

\* InputBlob.objects(is_validation_successful=True, is_processing_for_data=False)
Query == SelectSeq(order, LAMBDA d : Eligible(db[d]))

\* --------------------------------------------------------------- actions
\* handle_input_blob_process lines 26-38: the query and the loop entry
Discover(w) ==
    /\ pc[w] = "idle"
    /\ runs < MaxRuns
    /\ runs' = runs + 1
    /\ blob_list' = [blob_list EXCEPT ![w] = Query]
    /\ mem' = [mem EXCEPT ![w] = db]
    /\ is_error' = [is_error EXCEPT ![w] = TRUE]
    /\ in_handler' = [in_handler EXCEPT ![w] = FALSE]
    /\ result_dict' = [result_dict EXCEPT ![w] = "none"]
    /\ raised' = [raised EXCEPT ![w] = {}]
    /\ started' = [started EXCEPT ![w] = {}]
    /\ done' = [done EXCEPT ![w] = {}]
    /\ src_missing' = [src_missing EXCEPT ![w] = {}]
    /\ relocated' = relocated
    /\ IF Query = <<>>
       THEN /\ pc' = pc
            /\ idx' = [idx EXCEPT ![w] = 0]
            /\ outcome' = [outcome EXCEPT ![w] = "returned"]
       ELSE /\ pc' = [pc EXCEPT ![w] = "claim"]
            /\ idx' = [idx EXCEPT ![w] = 1]
            /\ outcome' = [outcome EXCEPT ![w] = "running"]
    /\ UNCHANGED aux_vars
    /\ UNCHANGED <<config, order, db, store, results, faults>>

\* set_blob_for_processing_and_update_mongodb lines 140-156
Claim(w) ==
    /\ pc[w] = "claim"
    /\ started' = [started EXCEPT ![w] = @ \cup {Cur(w)}]
    /\ LET rec == mem[w][Cur(w)] IN
       IF RaisesMissingDocumentType(rec.validation_successful_blob_path)
       THEN /\ Keep(w, AppendStatus(rec, PROCESSING, "Starting blob process"))
            /\ Raise(w)
            /\ NoFault
       ELSE \/ /\ Save(w, ClaimPrepared(rec))
               /\ Goto(w, "claim_copy")
               /\ NoFault
            \/ /\ Keep(w, ClaimPrepared(rec))
               /\ Raise(w)
               /\ Fault
    /\ UNCHANGED aux_vars
    /\ UNCHANGED <<relocated, src_missing>>
    /\ UNCHANGED <<config, order, store, results, blob_list, idx, is_error, result_dict, done, runs>>

\* a copy that returns without having written the destination
CopyBlobNoop(w, src, dst, next) ==
    \/ /\ src \in store
       /\ store' = store
       /\ Goto(w, next)
       /\ NoFault
       /\ src_missing' = src_missing
    \/ /\ src \in store
       /\ store' = store
       /\ Raise(w)
       /\ Fault
       /\ src_missing' = src_missing
    \/ /\ src \notin store
       /\ store' = store
       /\ Raise(w)
       /\ NoFault
       /\ src_missing' = [src_missing EXCEPT ![w] = @ \cup {Cur(w)}]

\* start_copy_from_url (line 196) of a relocation from src to dst
CopyBlob(w, src, dst, next) ==
    \/ /\ src \in store
       /\ store' = store \cup {dst}
       /\ Goto(w, next)
       /\ NoFault
       /\ src_missing' = src_missing
    \/ /\ src \in store
       /\ store' = store
       /\ Raise(w)
       /\ Fault
       /\ src_missing' = src_missing
    \/ /\ src \notin store
       /\ store' = store
       /\ Raise(w)
       /\ NoFault
       /\ src_missing' = [src_missing EXCEPT ![w] = @ \cup {Cur(w)}]

\* delete_blob (line 197) of a relocation from src
DeleteBlob(w, src, next) ==
    \/ /\ src \in store
       /\ store' = store \ {src}
       /\ Goto(w, next)
       /\ NoFault
       /\ src_missing' = src_missing
    \/ /\ src \in store
       /\ store' = store
       /\ Raise(w)
       /\ Fault
       /\ src_missing' = src_missing
    \/ /\ src \notin store
       /\ store' = store
       /\ Raise(w)
       /\ NoFault
       /\ src_missing' = [src_missing EXCEPT ![w] = @ \cup {Cur(w)}]

\* lines 162-164, the copy of the relocation to Inprogress
ClaimCopy(w) ==
    /\ pc[w] = "claim_copy"
    /\ CopyBlob(w, mem[w][Cur(w)].validation_successful_blob_path,
                mem[w][Cur(w)].in_progress_blob_path, "claim_delete")
    /\ relocated' = IF pc'[w] = "claim_delete" THEN relocated \cup {Cur(w)} ELSE relocated
    /\ UNCHANGED aux_vars
    /\ UNCHANGED <<config, order, db, results, mem, blob_list, idx, is_error, result_dict,
                   started, done, runs>>

\* lines 162-164, the delete of the relocation to Inprogress
ClaimDelete(w) ==
    /\ pc[w] = "claim_delete"
    /\ DeleteBlob(w, mem[w][Cur(w)].validation_successful_blob_path, "claim_mark")
    /\ UNCHANGED aux_vars
    /\ relocated' = relocated
    /\ UNCHANGED <<config, order, db, results, mem, blob_list, idx, is_error, result_dict,
                   started, done, runs>>

\* lines 167-172: the claim flag, the readable url, the save
ClaimMark(w) ==
    /\ pc[w] = "claim_mark"
    /\ LET rec == mem[w][Cur(w)] IN
       \/ /\ Save(w, ClaimMarked(rec))
          /\ Goto(w, "analyze")
          /\ NoFault
       \/ /\ Keep(w, ClaimMarked(rec))
          /\ Raise(w)
          /\ Fault
       \/ /\ Keep(w, [rec EXCEPT !.is_processing_for_data = TRUE])
          /\ Raise(w)
          /\ Fault
    /\ UNCHANGED aux_vars
    /\ UNCHANGED <<relocated, src_missing>>
    /\ UNCHANGED <<config, order, store, results, blob_list, idx, is_error, result_dict,
                   started, done, runs>>

\* lines 43-53 and analyze_blob lines 36-91
Analyze(w) ==
    /\ pc[w] = "analyze"
    /\ IF ~HandlerUsesRecognizer
       THEN /\ Goto(w, "processed")
            /\ result_dict' = result_dict
            /\ NoFault
       ELSE IF ~AnalysisEnabled
       THEN /\ Goto(w, "upload")
            /\ result_dict' = [result_dict EXCEPT ![w] = "disabled"]
            /\ NoFault
       ELSE IF ~config.keys
       THEN /\ Raise(w)
            /\ result_dict' = result_dict
            /\ NoFault
       ELSE \/ /\ Goto(w, "upload")
               /\ result_dict' = [result_dict EXCEPT ![w] = "analysis"]
               /\ NoFault
            \/ /\ Raise(w)
               /\ result_dict' = result_dict
               /\ Fault
    /\ UNCHANGED aux_vars
    /\ UNCHANGED <<relocated, src_missing>>
    /\ UNCHANGED <<config, order, db, store, results, mem, blob_list, idx, is_error,
                   started, done, runs>>

\* analyze_blob lines 93-122 and 126-127: the upload with overwrite=False
Upload(w) ==
    /\ pc[w] = "upload"
    /\ LET rec == mem[w][Cur(w)] IN
       \/ /\ ResultJsonPath(rec) \notin ResultPaths
          /\ results' = results \cup {<<ResultJsonPath(rec), FinalResult(rec, result_dict[w])>>}
          /\ Keep(w, [rec EXCEPT !.json_output = ResultJsonPath(rec)])
          /\ is_error' = is_error
          /\ Goto(w, "analyze_save")
          /\ NoFault
       \/ /\ ResultJsonPath(rec) \in ResultPaths
          /\ UNCHANGED <<results, db, mem>>
          /\ is_error' = [is_error EXCEPT ![w] = FALSE]
          /\ Goto(w, "processed")
          /\ NoFault
       \/ /\ ResultJsonPath(rec) \notin ResultPaths
          /\ UNCHANGED <<results, db, mem>>
          /\ is_error' = [is_error EXCEPT ![w] = FALSE]
          /\ Goto(w, "processed")
          /\ Fault
    /\ UNCHANGED aux_vars
    /\ UNCHANGED <<relocated, src_missing>>
    /\ UNCHANGED <<config, order, store, blob_list, idx, result_dict, started, done, runs>>

\* analyze_blob lines 124-127 and handle_input_blob_process lines 46-47
AnalyzeSave(w) ==
    /\ pc[w] = "analyze_save"
    /\ \/ /\ Save(w, mem[w][Cur(w)])
          /\ NoFault
       \/ /\ UNCHANGED <<db, mem>>
          /\ Fault
    /\ is_error' = [is_error EXCEPT ![w] = FALSE]
    /\ Goto(w, "processed")
    /\ UNCHANGED aux_vars
    /\ UNCHANGED <<relocated, src_missing>>
    /\ UNCHANGED <<config, order, store, results, blob_list, idx, result_dict, started, done, runs>>

\* lines 55-65, and 75-85, 96-104, 113-123 in the except blocks
MarkProcessed(w) ==
    /\ pc[w] = "processed"
    /\ LET rec == mem[w][Cur(w)] IN
       \/ /\ Save(w, Processed(rec))
          /\ Goto(w, "final_path")
          /\ NoFault
       \/ /\ Keep(w, Processed(rec))
          /\ Raise(w)
          /\ Fault
    /\ UNCHANGED aux_vars
    /\ UNCHANGED <<relocated, src_missing>>
    /\ UNCHANGED <<config, order, store, results, blob_list, idx, is_error, result_dict,
                   started, done, runs>>

\* set_processing_status_and_move_completed_blobs lines 243-247 and 269-272
SetFinalPath(w) ==
    /\ pc[w] = "final_path"
    /\ LET rec == mem[w][Cur(w)] IN
       IF rec.in_progress_blob_path = NoPath
       THEN /\ UNCHANGED <<db, mem>>
            /\ Raise(w)
            /\ NoFault
       ELSE \/ /\ Save(w, WithFinalPath(rec, is_error[w]))
               /\ Goto(w, "final_copy")
               /\ NoFault
            \/ /\ Keep(w, WithFinalPath(rec, is_error[w]))
               /\ Raise(w)
               /\ Fault
    /\ UNCHANGED aux_vars
    /\ UNCHANGED <<relocated, src_missing>>
    /\ UNCHANGED <<config, order, store, results, blob_list, idx, is_error, result_dict,
                   started, done, runs>>

\* lines 250-252 and 275-277, the copy of the terminal relocation
FinalCopy(w) ==
    /\ pc[w] = "final_copy"
    /\ CopyBlob(w, mem[w][Cur(w)].in_progress_blob_path,
                FinalPath(mem[w][Cur(w)], is_error[w]), "final_delete")
    /\ UNCHANGED aux_vars
    /\ relocated' = relocated
    /\ UNCHANGED <<config, order, db, results, mem, blob_list, idx, is_error, result_dict,
                   started, done, runs>>

\* lines 250-252 and 275-277, the delete of the terminal relocation
FinalDelete(w) ==
    /\ pc[w] = "final_delete"
    /\ DeleteBlob(w, mem[w][Cur(w)].in_progress_blob_path, "terminal")
    /\ UNCHANGED aux_vars
    /\ relocated' = relocated
    /\ UNCHANGED <<config, order, db, results, mem, blob_list, idx, is_error, result_dict,
                   started, done, runs>>

\* lines 255-266 and 280-291, then the next iteration of the loop
MarkTerminal(w) ==
    /\ pc[w] = "terminal"
    /\ LET rec == mem[w][Cur(w)] IN
       \/ /\ Save(w, Terminal(rec, is_error[w]))
          /\ Advance(w)
          /\ NoFault
       \/ /\ Keep(w, Terminal(rec, is_error[w]))
          /\ Raise(w)
          /\ UNCHANGED <<idx, done>>
          /\ Fault
    /\ UNCHANGED aux_vars
    /\ UNCHANGED <<relocated, src_missing>>
    /\ UNCHANGED <<config, order, store, results, blob_list, is_error, result_dict,
                   started, runs>>

Next ==
    \E w \in Worker :
        \/ Discover(w)
        \/ Claim(w)
        \/ ClaimCopy(w)
        \/ ClaimDelete(w)
        \/ ClaimMark(w)
        \/ Analyze(w)
        \/ Upload(w)
        \/ AnalyzeSave(w)
        \/ MarkProcessed(w)
        \/ SetFinalPath(w)
        \/ FinalCopy(w)
        \/ FinalDelete(w)
        \/ MarkTerminal(w)

Spec == Init /\ [][Next]_vars

\* the process running handle_input_blob_process stops at any statement:
\* the objects in memory are lost, the stores keep what was written
\* (a stop counts as one of the MaxFaults faults of a behaviour)
Crash(w) ==
    /\ pc[w] # "idle"
    /\ pc' = [pc EXCEPT ![w] = "idle"]
    /\ outcome' = [outcome EXCEPT ![w] = "crashed"]
    /\ in_handler' = [in_handler EXCEPT ![w] = FALSE]
    /\ Fault
    /\ UNCHANGED aux_vars
    /\ UNCHANGED <<config, order, db, store, results, mem, blob_list, idx, is_error,
                   result_dict, raised, started, done, runs, relocated, src_missing>>

NextCrash ==
    \E w \in Worker :
        \/ Discover(w)
        \/ Claim(w)
        \/ ClaimCopy(w)
        \/ ClaimDelete(w)
        \/ ClaimMark(w)
        \/ Analyze(w)
        \/ Upload(w)
        \/ AnalyzeSave(w)
        \/ MarkProcessed(w)
        \/ SetFinalPath(w)
        \/ FinalCopy(w)
        \/ FinalDelete(w)
        \/ MarkTerminal(w)
        \/ Crash(w)

\* runs of handle_input_blob_process that may be killed at any statement
SpecCrash == Init /\ [][NextCrash]_vars

\* the collections the two instances are run on: one record, resolvable or not
OrdersTwo == {<<1>>, <<3>>}

\* two instances with the analysis enabled and configured
InitTwo ==
    /\ \E o \in OrdersTwo : InitMain([env |-> "prod", use_fr |-> "true", keys |-> TRUE], o)
    /\ InitAux

\* two instances of the driver on the same record store and object store
NextTwo ==
    \E w \in Procs :
        \/ Discover(w)
        \/ Claim(w)
        \/ ClaimCopy(w)
        \/ ClaimDelete(w)
        \/ ClaimMark(w)
        \/ Analyze(w)
        \/ Upload(w)
        \/ AnalyzeSave(w)
        \/ MarkProcessed(w)
        \/ SetFinalPath(w)
        \/ FinalCopy(w)
        \/ FinalDelete(w)
        \/ MarkTerminal(w)

SpecTwo == InitTwo /\ [][NextTwo]_vars

TypeOK ==
    /\ runs \in 0..MaxRuns
    /\ faults \in 0..MaxFaults
    /\ \A w \in Procs : pc[w] \in {"idle", "claim", "claim_copy", "claim_delete", "claim_mark",
                                  "analyze", "upload", "analyze_save", "processed",
                                  "final_path", "final_copy", "final_delete", "terminal"}

\* ------------------------------------- get_document_type_from_file_name
\* the longest path argument drawn
MaxPathLen == 5

\* the tokens path arguments are made of
PathTokens == {"/", ".", "-", "1001", "receipt", "Receipt", "jpg"}

\* the path arguments: every token sequence up to MaxPathLen
ResolveInputs == UNION {[1..n -> PathTokens] : n \in 0..MaxPathLen}

\* the config sections drawn: absent, one key, two keys
Sections ==
    { [has_section |-> FALSE, items |-> <<>>],
      [has_section |-> TRUE, items |-> <<<<"receipt", "model-A">>>>],
      [has_section |-> TRUE, items |-> <<<<"invoice", "model-B">>, <<"receipt", "model-A">>>>] }

\* the outcome of one call: the exception raised or the pair returned
ResolveOutcome(file_path, section) ==
    IF RaisesIn(file_path, section)
    THEN [kind |-> "MissingDocumentTypeException", value |-> <<>>]
    ELSE [kind |-> "return", value |-> ResolveIn(file_path, section)]

InitResolve ==
    /\ InitMain([env |-> "prod", use_fr |-> "true", keys |-> TRUE], <<>>)
    /\ LegacyIdle
    /\ fn_pc = "input"
    /\ fn_path \in ResolveInputs
    /\ fn_table \in Sections
    /\ fn_stage = "none"
    /\ fn_from = "none"
    /\ fn_to = "none"
    /\ fn_mid = NoOutcome
    /\ fn_out = NoOutcome

\* a call of get_document_type_from_file_name(fn_path)
ResolveCall ==
    /\ fn_pc = "input"
    /\ fn_out' = ResolveOutcome(fn_path, fn_table)
    /\ fn_pc' = "resolved"
    /\ UNCHANGED <<main_vars, lg_vars, fn_path, fn_stage, fn_table, fn_from, fn_to, fn_mid>>

\* a second call with the same argument and section; fn_mid keeps the
\* outcome of the first
ResolveAgain ==
    /\ fn_pc = "resolved"
    /\ fn_mid' = fn_out
    /\ fn_out' = ResolveOutcome(fn_path, fn_table)
    /\ fn_pc' = "resolved_again"
    /\ UNCHANGED <<main_vars, lg_vars, fn_path, fn_stage, fn_table, fn_from, fn_to>>

NextResolve == ResolveCall \/ ResolveAgain

SpecResolve == InitResolve /\ [][NextResolve]_vars

\* ------------------------------------------------ stage path substitution
Stages == {"Validation-Successful", "Inprogress", "Successful", "Failed"}

\* the folder constant of a stage
StageFolder(stage) ==
    CASE stage = "Validation-Successful" -> VALIDATION_SUCCESSFUL_SUBFOLDER
      [] stage = "Inprogress" -> INPROGRESS_SUBFOLDER
      [] stage = "Successful" -> SUCCESSFUL_SUBFOLDER
      [] OTHER -> FAILED_SUBFOLDER

\* path.replace(<from folder>, <to folder>)
StageSubstitute(path, from, to) == Replace(path, StageFolder(from), StageFolder(to))

\* the company segments drawn: a plain one and the stage-folder names
StageCompanies ==
    { <<"acme">>, INPROGRESS_SUBFOLDER, SUCCESSFUL_SUBFOLDER, FAILED_SUBFOLDER,
      VALIDATION_SUCCESSFUL_SUBFOLDER }

\* the filename segments drawn
StageFileNames ==
    { <<"1001", "-", "receipt", ".", "jpg">>,
      <<"Inprogress", ".", "jpg">>,
      <<"Failed", "-", "receipt", ".", "jpg">> }

\* <root>/<company>/<stage folder>/<filename>
StagePath(company, stage, filename) ==
    <<"Companies", "/">> \o company \o <<"/">> \o StageFolder(stage) \o <<"/">> \o filename

\* the path has the folder as one of its segments
HasSegment(path, folder) ==
    \E i \in 1..Len(path) :
        /\ i + Len(folder) + 1 <= Len(path)
        /\ SubSeq(path, i, i + Len(folder) + 1) = <<"/">> \o folder \o <<"/">>

InitStage ==
    /\ InitMain([env |-> "prod", use_fr |-> "true", keys |-> TRUE], <<>>)
    /\ LegacyIdle
    /\ fn_pc = "input"
    /\ fn_stage \in Stages
    /\ fn_from \in Stages
    /\ fn_to \in Stages
    /\ \E c \in StageCompanies : \E f \in StageFileNames : fn_path = StagePath(c, fn_stage, f)
    /\ fn_table = DocumentTypeSection
    /\ fn_mid = NoOutcome
    /\ fn_out = NoOutcome

\* the substitution of fn_from by fn_to in fn_path; str.replace raises nothing
Substitute ==
    /\ fn_pc = "input"
    /\ fn_mid' = [kind |-> "return", value |-> StageSubstitute(fn_path, fn_from, fn_to)]
    /\ fn_pc' = "substituted"
    /\ UNCHANGED <<main_vars, lg_vars, fn_path, fn_stage, fn_table, fn_from, fn_to, fn_out>>

\* the substitution of fn_to by fn_from in the path Substitute returned
SubstituteBack ==
    /\ fn_pc = "substituted"
    /\ fn_out' = [kind |-> "return", value |-> StageSubstitute(fn_mid.value, fn_to, fn_from)]
    /\ fn_pc' = "back"
    /\ UNCHANGED <<main_vars, lg_vars, fn_path, fn_stage, fn_table, fn_from, fn_to, fn_mid>>

NextStage == Substitute \/ SubstituteBack

SpecStage == InitStage /\ [][NextStage]_vars

\* ------------------------------- blob_handler.check_and_process_blob_storage
\* the stage paths of a document
InprogressPathOf(d) == Replace(DocPath(d), VALIDATION_SUCCESSFUL_SUBFOLDER, INPROGRESS_SUBFOLDER)
FailedPathOf(d) == Replace(InprogressPathOf(d), INPROGRESS_SUBFOLDER, FAILED_SUBFOLDER)
SuccessPathOf(d) == Replace(InprogressPathOf(d), INPROGRESS_SUBFOLDER, SUCCESSFUL_SUBFOLDER)

InitLegacy ==
    /\ \E o \in Orders : InitMain([env |-> "prod", use_fr |-> "true", keys |-> TRUE], o)
    /\ FnIdle
    /\ lg_pc = "start"
    /\ lg_list = <<>>
    /\ lg_idx = 0
    /\ lg_processed = <<>>
    /\ lg_outcome = "none"

\* what the driver of blob_handler.py leaves alone: the records and the
\* state of handle_input_blob_process
LegacyFrame ==
    UNCHANGED <<fn_vars, config, order, db, results, mem, blob_list, idx, pc, is_error,
                in_handler, result_dict, raised, started, done, outcome, runs,
                relocated, src_missing>>

\* utils.move_blob: copy to dst, then delete src; ok tells whether it returned
LegacyMove(src, dst, ok) ==
    \/ /\ src \in store
       /\ ok
       /\ store' = (store \cup {dst}) \ {src}
       /\ NoFault
    \/ /\ src \in store
       /\ ~ok
       /\ store' \in {store, store \cup {dst}}
       /\ Fault
    \/ /\ src \notin store
       /\ ~ok
       /\ store' = store
       /\ NoFault

\* the document of the current loop iteration
LegacyCur == lg_list[lg_idx]

\* the end of a loop iteration: the next document, or return (line 66)
LegacyAdvance ==
    IF lg_idx = Len(lg_list)
    THEN /\ lg_pc' = "done"
         /\ lg_outcome' = "returned"
         /\ lg_idx' = lg_idx
    ELSE /\ lg_pc' = "analyze"
         /\ lg_outcome' = lg_outcome
         /\ lg_idx' = lg_idx + 1

\* an exception leaves check_and_process_blob_storage
LegacyRaise ==
    /\ lg_pc' = "done"
    /\ lg_outcome' = "raised"
    /\ lg_idx' = lg_idx

\* lines 77-94: the listing of the Validation-Successful objects, or
\* FolderMissingBusinessException when there is none
LegacyList ==
    /\ lg_pc = "start"
    /\ lg_list' = <<>>
    /\ lg_processed' = lg_processed
    /\ IF \A d \in Range(order) : DocPath(d) \notin store
       THEN LegacyRaise
       ELSE /\ lg_pc' = "collect"
            /\ lg_idx' = 1
            /\ lg_outcome' = "running"
    /\ store' = store
    /\ NoFault
    /\ LegacyFrame

\* the documents of the listing, in its order
LegacyListing == SelectSeq(order, LAMBDA d : DocPath(d) \in store \/ d \in Range(lg_list))

\* lines 96-97 and collect_input_blob (lines 113-143) for one listed object:
\* the document type, then the move to Inprogress, outside any try
LegacyCollect ==
    /\ lg_pc = "collect"
    /\ LET d == LegacyListing[lg_idx] IN
       IF RaisesMissingDocumentType(DocPath(d))
       THEN /\ LegacyRaise
            /\ lg_list' = lg_list
            /\ store' = store
            /\ NoFault
       ELSE \E ok \in BOOLEAN :
            /\ LegacyMove(DocPath(d), InprogressPathOf(d), ok)
            /\ IF ~ok
               THEN LegacyRaise /\ lg_list' = lg_list
               ELSE /\ lg_list' = Append(lg_list, d)
                    /\ lg_outcome' = lg_outcome
                    /\ IF lg_idx = Len(LegacyListing)
                       THEN lg_pc' = "analyze" /\ lg_idx' = 1
                       ELSE lg_pc' = "collect" /\ lg_idx' = lg_idx + 1
    /\ lg_processed' = lg_processed
    /\ LegacyFrame

\* lines 39-42: analyze_blob and the append of its result
LegacyAnalyze ==
    /\ lg_pc = "analyze"
    /\ \/ /\ lg_processed' = Append(lg_processed, LegacyCur)
          /\ lg_pc' = "finalize"
          /\ NoFault
       \/ /\ lg_processed' = lg_processed
          /\ lg_pc' = "except"
          /\ Fault
    /\ UNCHANGED <<lg_list, lg_idx, lg_outcome, store>>
    /\ LegacyFrame

\* line 43: set_processing_status_and_move_completed_blobs(input_blob, False)
LegacyFinalize ==
    /\ lg_pc = "finalize"
    /\ \E ok \in BOOLEAN :
        /\ LegacyMove(InprogressPathOf(LegacyCur), SuccessPathOf(LegacyCur), ok)
        /\ IF ok
           THEN LegacyAdvance
           ELSE /\ lg_pc' = "except"
                /\ UNCHANGED <<lg_idx, lg_outcome>>
    /\ UNCHANGED <<lg_list, lg_processed>>
    /\ LegacyFrame

\* lines 45-64: each except block moves to Failed and appends the blob
LegacyExcept ==
    /\ lg_pc = "except"
    /\ \E ok \in BOOLEAN :
        /\ LegacyMove(InprogressPathOf(LegacyCur), FailedPathOf(LegacyCur), ok)
        /\ IF ok
           THEN /\ lg_processed' = Append(lg_processed, LegacyCur)
                /\ LegacyAdvance
           ELSE /\ lg_processed' = lg_processed
                /\ LegacyRaise
    /\ UNCHANGED lg_list
    /\ LegacyFrame

NextLegacy ==
    \/ LegacyList
    \/ LegacyCollect
    \/ LegacyAnalyze
    \/ LegacyFinalize
    \/ LegacyExcept

SpecLegacy == InitLegacy /\ [][NextLegacy]_vars

\* ------------------------------------------------------------ properties
IsPrefix(s, t) == Len(s) <= Len(t) /\ SubSeq(t, 1, Len(s)) = s

\* the record carries a SUCCESS or FAILED lifecycle entry
HasTerminalEntry(rec) ==
    \E i \in 1..Len(rec.lifecycle_status_list) :
        rec.lifecycle_status_list[i].status \in {SUCCESS, FAILED}

\* C1: a document whose try block raised and whose loop iteration has ended
\* is in the Failed folder with is_processed_failed = true and
\* is_processed_success = false, and is not in the Successful folder.
C1_RaisedEndsFailed ==
    \A w \in Worker : \A d \in done[w] \cap raised[w] :
        /\ mem[w][d].is_processed_failed
        /\ ~mem[w][d].is_processed_success
        /\ FailedPathOf(d) \in store
        /\ SuccessPathOf(d) \notin store

\* C2: a document is Succeeded (record flag, or object in the Successful
\* folder) only if json_output is set on its record and the result artifact
\* is in the result container.
C2_SucceededHasResult ==
    \A d \in Docs :
        (db[d].is_processed_success \/ SuccessPathOf(d) \in store)
            => /\ db[d].json_output # NoPath
               /\ db[d].json_output \in ResultPaths

\* C3: a run of handle_input_blob_process never ends by propagating the
\* exception of one document; it returns after attempting every document.
C3_BatchNeverAborts ==
    \A w \in Worker :
        /\ outcome[w] # "raised"
        /\ outcome[w] = "returned" => started[w] = Range(blob_list[w])

\* C4 (as stated): in every persisted record, is_processed_for_data implies
\* exactly one of is_processed_success and is_processed_failed.
C4_FinishedExactlyOne ==
    \A d \in Docs :
        db[d].is_processed_for_data
            => (db[d].is_processed_success # db[d].is_processed_failed)

\* C4 (amended): in every persisted record, is_processed_for_data implies at
\* most one of is_processed_success and is_processed_failed, and exactly one
\* once the record carries a SUCCESS or FAILED lifecycle entry.
C4_FinishedAtMostOne ==
    \A d \in Docs :
        /\ db[d].is_processed_for_data
            => ~(db[d].is_processed_success /\ db[d].is_processed_failed)
        /\ HasTerminalEntry(db[d])
            => /\ db[d].is_processed_for_data
               /\ db[d].is_processed_success # db[d].is_processed_failed

\* a persisted record that finished with a terminal entry, and one that is
\* finished with the relocation still ahead
C4_Witness ==
    /\ \E d \in Docs : /\ HasTerminalEntry(db[d])
                       /\ db[d].is_processed_for_data
                       /\ db[d].is_processed_failed
    /\ \E d \in Docs : /\ db[d].is_processed_for_data
                       /\ ~HasTerminalEntry(db[d])
                       /\ ~db[d].is_processed_success
                       /\ ~db[d].is_processed_failed

\* C5: in every state of every record, persisted or in memory,
\* is_processed_success and is_processed_failed are not both true, and both
\* are false while is_processed_for_data is false.
C5_NeverBothFalseInFlight ==
    \A d \in Docs : \A rec \in {db[d]} \cup {mem[w][d] : w \in Worker} :
        /\ ~(rec.is_processed_success /\ rec.is_processed_failed)
        /\ ~rec.is_processed_for_data
            => (~rec.is_processed_success /\ ~rec.is_processed_failed)

\* one record in flight (claimed, not finished) next to a terminal one
C5_Witness ==
    /\ \E d \in Docs : /\ db[d].is_processing_for_data
                       /\ ~db[d].is_processed_for_data
                       /\ ~db[d].is_processed_success
                       /\ ~db[d].is_processed_failed
    /\ \E d \in Docs : db[d].is_processed_for_data /\ db[d].is_processed_success
    /\ \E w \in Worker : pc[w] = "analyze"

\* C6: once a persisted record has is_processed_success or
\* is_processed_failed, no step selects it in a new run, moves its object,
\* appends to its lifecycle list or changes its three processed flags.
C6_TerminalIsFinal ==
    [][\A d \in Docs :
        (db[d].is_processed_success \/ db[d].is_processed_failed)
            => /\ runs' # runs => \A w \in Worker : d \notin Range(blob_list'[w])
               /\ \A p \in {DocPath(d), InprogressPathOf(d), FailedPathOf(d), SuccessPathOf(d)} :
                    (p \in store) <=> (p \in store')
               /\ db'[d].lifecycle_status_list = db[d].lifecycle_status_list
               /\ db'[d].is_processed_for_data = db[d].is_processed_for_data
               /\ db'[d].is_processed_success = db[d].is_processed_success
               /\ db'[d].is_processed_failed = db[d].is_processed_failed]_vars

\* C7: when a run has ended, every document whose claim began in it has
\* is_processed_for_data = true, a SUCCESS or FAILED lifecycle entry and its
\* object in the Successful or Failed folder.
C7_StartedReachTerminal ==
    \A w \in Worker :
        outcome[w] \in {"returned", "raised"}
            => \A d \in started[w] :
                /\ db[d].is_processed_for_data
                /\ HasTerminalEntry(db[d])
                /\ (SuccessPathOf(d) \in store \/ FailedPathOf(d) \in store)

\* C8: a document whose type cannot be resolved keeps the record and the
\* object it had before the claim was attempted.
C8_UnresolvableUntouched ==
    \A d \in Docs :
        RaisesMissingDocumentType(DocPath(d))
            => /\ db[d] = InitialBlob(order, d)
               /\ (d \in Range(order)) => DocPath(d) \in store

\* C9: a record persisted with is_processing_for_data = true keeps the flag
\* and is in the list of no later discovery.
C9_ClaimedNeverSelected ==
    [][\A d \in Docs :
        db[d].is_processing_for_data
            => /\ db'[d].is_processing_for_data
               /\ runs' # runs => \A w \in Worker : d \notin Range(blob_list'[w])]_vars

\* a later run has queried the store while a record claimed earlier exists
C9_Witness ==
    \E d \in Docs : \E w \in Worker :
        /\ db[d].is_processing_for_data
        /\ runs >= 2
        /\ blob_list[w] # <<>>
        /\ d \notin Range(blob_list[w])

\* C10: every step leaves the lifecycle list of a record, persisted and in
\* memory during a run, a prefix of the list after the step.
C10_LifecycleAppendOnly ==
    [][\A d \in Docs :
        /\ IsPrefix(db[d].lifecycle_status_list, db'[d].lifecycle_status_list)
        /\ runs' = runs =>
            \A w \in Worker :
                IsPrefix(mem[w][d].lifecycle_status_list, mem'[w][d].lifecycle_status_list)]_vars

\* a record that went through claim and finalize, and was appended to in a
\* second run
C10_Witness ==
    \E d \in Docs :
        /\ Len(db[d].lifecycle_status_list) >= 4
        /\ runs >= 2

\* the status of the i-th lifecycle entry of a record, "" before the list
StatusAt(rec, i) == IF i >= 1 THEN rec.lifecycle_status_list[i].status ELSE ""

\* C11: in every persisted record a SUCCESS or FAILED entry is immediately
\* preceded by exactly one PROCESSED entry (the entry before that one is not
\* PROCESSED), SUCCESS goes with the Successful folder and FAILED with the
\* Failed folder, and a document whose loop iteration has ended got exactly
\* the two entries PROCESSED and SUCCESS/FAILED after its PROCESSING entry.
C11_FinalizeAppendsTwo ==
    /\ \A d \in Docs : \A i \in 1..Len(db[d].lifecycle_status_list) :
        StatusAt(db[d], i) \in {SUCCESS, FAILED}
            => /\ StatusAt(db[d], i - 1) = PROCESSED
               /\ StatusAt(db[d], i - 2) # PROCESSED
               /\ StatusAt(db[d], i) = SUCCESS => db[d].success_blob_path # NoPath
               /\ StatusAt(db[d], i) = FAILED => db[d].failed_blob_path # NoPath
    /\ \A w \in Worker : \A d \in done[w] :
        LET n == Len(db[d].lifecycle_status_list) IN
            /\ n >= 3
            /\ StatusAt(db[d], n) \in {SUCCESS, FAILED}
            /\ StatusAt(db[d], n - 1) = PROCESSED
            /\ StatusAt(db[d], n - 2) = PROCESSING

\* C12: a run whose query found no record ends by raising a no-documents
\* error; it does not return normally.
C12_EmptyDiscoveryRaises ==
    \A w \in Worker :
        (outcome[w] # "none" /\ blob_list[w] = <<>>) => outcome[w] = "raised"

\* the token after the last hyphen of a name: a set of zero or one element
TrailingTokens(name) ==
    {SubSeq(name, k + 1, Len(name)) :
        k \in {j \in 1..Len(name) :
                /\ name[j] = "-"
                /\ \A i \in (j + 1)..Len(name) : name[i] # "-"}}

\* the keys of the section that equal the token, ignoring case
KeysOf(token, section) ==
    IF section.has_section
    THEN {i \in 1..Len(section.items) : LowerSeq(token) = <<Lower(section.items[i][1])>>}
    ELSE {}

\* C14: when the base filename without its extension has a hyphen and the
\* token after the last hyphen equals a key of the table ignoring case, the
\* call returns (that token, the model id of the key), and a second call
\* with the same path and table returns the same pair.
C14_ResolveReturnsPair ==
    fn_pc \in {"resolved", "resolved_again"} =>
        \A t \in TrailingTokens(NamePart(fn_path)) : \A i \in KeysOf(t, fn_table) :
            /\ fn_out.kind = "return"
            /\ fn_out.value = <<t, fn_table.items[i][2]>>
            /\ fn_pc = "resolved_again" => fn_mid = fn_out

\* 1001-receipt.jpg with receipt -> model-A gave (receipt, model-A), twice
C14_Witness ==
    /\ fn_pc = "resolved_again"
    /\ fn_path = <<"1001", "-", "receipt", ".", "jpg">>
    /\ fn_table = [has_section |-> TRUE, items |-> <<<<"receipt", "model-A">>>>]
    /\ fn_out.kind = "return"
    /\ fn_out.value = <<<<"receipt">>, "model-A">>
    /\ fn_mid = fn_out

\* the name has no hyphen, or its trailing token matches no key (the
\* section is absent, the token is empty or unknown)
Unresolvable(file_path, section) ==
    \A t \in TrailingTokens(NamePart(file_path)) : KeysOf(t, section) = {}

\* C15: a call for a path whose base filename without its extension has no
\* hyphen, or whose token after the last hyphen matches no key of the table,
\* raises MissingDocumentTypeException, returns nothing and changes nothing
\* but its own outcome.
C15_UnresolvableRaises ==
    [][(fn_pc' \in {"resolved", "resolved_again"} /\ Unresolvable(fn_path, fn_table))
        => /\ fn_out'.kind = "MissingDocumentTypeException"
           /\ fn_out'.value = <<>>
           /\ UNCHANGED <<main_vars, fn_path, fn_table>>]_vars

\* 1001.jpg, without a hyphen, raised
C15_Witness ==
    /\ fn_pc = "resolved"
    /\ fn_path = <<"1001", ".", "jpg">>
    /\ fn_out.kind = "MissingDocumentTypeException"

\* C16: for a path <root>/<company>/<stage A folder>/<filename>, substituting
\* A by B and then B by A gives the path again.
C16_RoundTrip ==
    (fn_pc = "back" /\ fn_stage = fn_from) =>
        /\ fn_out.kind = "return"
        /\ fn_out.value = fn_path

\* C17: a substitution on a path without the from-stage segment fails with a
\* malformed-path error and returns no path.
C17_MissingSegmentFails ==
    (fn_pc \in {"substituted", "back"} /\ ~HasSegment(fn_path, StageFolder(fn_from)))
        => fn_mid.kind = "MalformedPathError"

\* the stage paths of a document
StagePathsOf(d) == {DocPath(d), InprogressPathOf(d), FailedPathOf(d), SuccessPathOf(d)}

\* C18: a record is persisted with is_processing_for_data = true only after
\* its object was copied to the Inprogress path and deleted from the
\* Validation-Successful path, also when the run is killed or a step raises;
\* a record whose object was never copied keeps the flag false and matches
\* the query of the next run.
C18_ClaimedOnlyAfterRelocation ==
    \A d \in Docs :
        /\ db[d].is_processing_for_data => (d \in relocated /\ DocPath(d) \notin store)
        /\ (d \in Range(order) /\ d \notin relocated) => d \in Range(Query)

\* a run was killed after the save of line 156 of one document, which is
\* selected again, while an earlier document of the run stays claimed
C18_Witness ==
    \E w \in Worker : \E d \in started[w] : \E e \in Docs :
        /\ outcome[w] = "crashed"
        /\ d \notin relocated
        /\ Len(db[d].lifecycle_status_list) = 1
        /\ ~db[d].is_processing_for_data
        /\ d \in Range(Query)
        /\ db[e].is_processing_for_data
        /\ e \in relocated

\* C19: every document of the collection has its object at one stage path at
\* least, whatever step raised or was killed and whatever runs followed; when
\* the copy of a relocation is done and its delete is not, the object is at
\* both paths.
C19_NeverLost ==
    /\ \A d \in Range(order) : StagePathsOf(d) \cap store # {}
    /\ \A w \in Worker :
        /\ pc[w] = "claim_delete"
            => {DocPath(Cur(w)), InprogressPathOf(Cur(w))} \subseteq store
        /\ pc[w] = "final_delete"
            => /\ InprogressPathOf(Cur(w)) \in store
               /\ {FailedPathOf(Cur(w)), SuccessPathOf(Cur(w))} \cap store # {}

\* a run was killed between the copy and the delete of the relocation to
\* Inprogress, the object is at both paths, and a later run started
C19_Witness ==
    \E d \in Range(order) :
        /\ runs = 2
        /\ d \in relocated
        /\ ~db[d].is_processing_for_data
        /\ {DocPath(d), InprogressPathOf(d)} \subseteq store

\* C20: a document one of whose relocations failed on a missing source does
\* not end the run with an exception, and once its iteration has ended its
\* record has is_processed_failed = true and FAILED as its last entry.
C20_SourceMissingEscalates ==
    \A w \in Worker : \A d \in src_missing[w] :
        /\ ~(outcome[w] = "raised" /\ Cur(w) = d)
        /\ d \in done[w] =>
            /\ db[d].is_processed_failed
            /\ Len(db[d].lifecycle_status_list) >= 1
            /\ StatusAt(db[d], Len(db[d].lifecycle_status_list)) = FAILED

\* the number of entries of a list that are the document
Occurrences(list, d) == Cardinality({i \in 1..Len(list) : list[i] = d})

\* C13: the list a batch run returns has exactly one entry per document
\* attempted, also for a document whose analysis returned and whose move to
\* the Successful folder raised.
C13_OneSummaryPerDocument ==
    lg_outcome = "returned" =>
        \A d \in Docs :
            Occurrences(lg_processed, d) = (IF d \in Range(lg_list) THEN 1 ELSE 0)

\* C21: with the analysis disabled by configuration, a document whose
\* iteration ended without an exception is Successful, not Failed, and the
\* result container holds its artifact with the placeholder payload.
C21_DisabledIsSuccess ==
    \A w \in Worker : \A d \in done[w] :
        (~AnalysisEnabled /\ d \notin raised[w]) =>
            /\ db[d].is_processed_success
            /\ ~db[d].is_processed_failed
            /\ \E r \in results :
                /\ r[1] = ResultJsonPath(db[d])
                /\ r[2].recognizer_result_data = "disabled"

\* C22: a stored result artifact is never changed or removed, and an upload
\* to a result path that is already taken makes analyze_blob raise to its
\* caller.
C22_WriteOnceFailsLoudly ==
    [][/\ \A r \in results :
            /\ r \in results'
            /\ \A q \in results' : q[1] = r[1] => q = r
       /\ \A w \in Worker :
            (/\ pc[w] = "upload"
             /\ pc'[w] # "upload"
             /\ ResultJsonPath(mem[w][Cur(w)]) \in ResultPaths)
                => Cur(w) \in raised'[w]]_vars

\* C23: in_progress_blob_sas_url is unset on a record no run has touched and
\* on a record marked Successful or Failed.
C23_SasOnlyInprogress ==
    \A d \in Docs :
        /\ db[d].lifecycle_status_list = <<>> => db[d].in_progress_blob_sas_url = NoPath
        /\ (db[d].is_processed_success \/ db[d].is_processed_failed)
            => db[d].in_progress_blob_sas_url = NoPath

\* the statements after set_blob_for_processing_and_update_mongodb
PostClaim ==
    {"analyze", "upload", "analyze_save", "processed", "final_path", "final_copy",
     "final_delete", "terminal"}

\* the fields derived by the claim
Derivations(rec) ==
    <<rec.validation_successful_blob_path, rec.blob_type, rec.form_recognizer_model_id,
      rec.in_progress_blob_path>>

\* C24: no step after the claim (analysis, PROCESSED entry, relocation,
\* terminal entry) assigns validation_successful_blob_path, blob_type,
\* form_recognizer_model_id or in_progress_blob_path of a record, and what
\* such a step saves carries the values the record had in memory.
C24_FinalizeKeepsDerivations ==
    [][\A w \in Worker : pc[w] \in PostClaim =>
        \A d \in Docs :
            /\ Derivations(mem'[w][d]) = Derivations(mem[w][d])
            /\ db'[d] # db[d] => Derivations(db'[d]) = Derivations(mem[w][d])]_vars

\* a claimed and analysed document was finalized with its derivations
C24_Witness ==
    \E w \in Worker : \E d \in done[w] :
        /\ HasTerminalEntry(db[d])
        /\ db[d].is_processing_for_data
        /\ Derivations(db[d]) = <<DocPath(d), <<"receipt">>, "model-A", InprogressPathOf(d)>>

\* C26: a persisted record marked Successful or Failed has
\* is_processing_for_data = true.
C26_TerminalIsClaimed ==
    \A d \in Docs :
        (db[d].is_processed_success \/ db[d].is_processed_failed)
            => db[d].is_processing_for_data

\* C27: a record marked Successful has its object at success_blob_path, a
\* record marked Failed at failed_blob_path, and neither has an object at
\* its Inprogress path.
C27_RecordMatchesStore ==
    \A d \in Docs :
        /\ db[d].is_processed_success
            => /\ db[d].success_blob_path \in store
               /\ db[d].in_progress_blob_path \notin store
        /\ db[d].is_processed_failed
            => /\ db[d].failed_blob_path \in store
               /\ db[d].in_progress_blob_path \notin store

\* the records whose persisted flags match the filter of line 29
PersistedEligible ==
    SelectSeq(order, LAMBDA d : db[d].is_validation_successful /\ ~db[d].is_processing_for_data)

\* C25: with two instances, the query of a starting run returns every record
\* persisted with is_processing_for_data = false, also a record the other
\* instance has selected and not yet saved as claimed; nothing like a lease
\* keeps it out.
C25_SelectionIgnoresOtherInstance ==
    [][runs' = runs + 1 =>
        \E w \in Procs : pc[w] = "idle" /\ blob_list'[w] = PersistedEligible]_vars

\* both instances have started the claim of the same document, read with
\* is_processing_for_data = false, and neither has saved it as claimed
C25_Witness ==
    \E d \in Docs :
        /\ ~db[d].is_processing_for_data
        /\ \A w \in Procs :
            /\ pc[w] \in {"claim_copy", "claim_delete", "claim_mark"}
            /\ Cur(w) = d
            /\ d \in started[w]
            /\ ~mem[w][d].is_processing_for_data

====
